---- MODULE Spec2Model ----
(***************************************************************************)
(* Model of the StudyBuddy backend: the chat routes (routes/chat.js), the  *)
(* Chat, Roadmap and Progress models, and the roadmap normalizer           *)
(* Roadmap.createFromRAG.                                                  *)
(*                                                                         *)
(* Two specifications share the module's variables:                        *)
(*   Spec      the request handlers of routes/chat.js running as           *)
(*             concurrent tasks over the MongoDB collections; every        *)
(*             `await` of a handler is one step.                           *)
(*   SpecNorm  Roadmap.createFromRAG applied to payloads of the            *)
(*             Generation Service drawn from bounded sets.                 *)
(***************************************************************************)
EXTENDS Integers, Sequences, FiniteSets, TLC

(***************************************************************************)
(* JavaScript values as they occur in the Generation Service payload:      *)
(* undefined, a number, a string.                                          *)
(***************************************************************************)
JsUndef == [t |-> "undef", n |-> 0, s |-> ""]

JsNum(k) == [t |-> "num", n |-> k, s |-> ""]

JsStr(x) == [t |-> "str", n |-> 0, s |-> x]

\* JavaScript truthiness: undefined, 0 and '' are falsy.
Truthy(v) == (v.t = "num" /\ v.n # 0) \/ (v.t = "str" /\ v.s # "")

\* a || b
JsOr(a, b) == IF Truthy(a) THEN a ELSE b

\* An optional array field: (x || [])
JsArr(a) == IF a.present THEN a.items ELSE <<>>

Present(items) == [present |-> TRUE, items |-> items]

Missing == [present |-> FALSE, items |-> <<>>]

RECURSIVE SumSeq(_)
SumSeq(q) == IF q = <<>> THEN 0 ELSE Head(q) + SumSeq(Tail(q))

\* The String setter `trim: true` of the schemas: String.prototype.trim.
RECURSIVE TrimLeft(_)
TrimLeft(x) ==
    IF Len(x) > 0 /\ SubSeq(x, 1, 1) = " " THEN TrimLeft(SubSeq(x, 2, Len(x))) ELSE x

RECURSIVE TrimRight(_)
TrimRight(x) ==
    IF Len(x) > 0 /\ SubSeq(x, Len(x), Len(x)) = " "
    THEN TrimRight(SubSeq(x, 1, Len(x) - 1)) ELSE x

Trim(v) == IF v.t = "str" THEN JsStr(TrimRight(TrimLeft(v.s))) ELSE v

(***************************************************************************)
(* Roadmap.createFromRAG: the document built from the payload.  `new       *)
(* this({...})` runs the schema setters, so the String fields declared     *)
(* with trim: true hold the trimmed value before validation.               *)
(***************************************************************************)
MaxTitleLen == 500

\* A truncation that keeps MaxTitleLen characters and then adds the marker.
TruncateTitleLate(title) ==
    IF title.t = "str" /\ Len(title.s) > MaxTitleLen
    THEN JsStr(SubSeq(title.s, 1, MaxTitleLen) \o "...")
    ELSE title

\* Title: ragResponse.title || 'Learning Roadmap', cut to 500 characters.
TruncateTitle(title) ==
    IF title.t = "str" /\ Len(title.s) > MaxTitleLen
    THEN JsStr(SubSeq(title.s, 1, MaxTitleLen - 3) \o "...")
    ELSE title

\* The resource mapping of createFromRAG: only 'problem', 'youtube' and
\* 'playlist' are renamed, a missing type becomes 'article', every other
\* value is kept as it is.
ResourceType(res) ==
    LET resourceType == JsOr(res.type, JsStr("article"))
    IN  IF resourceType = JsStr("problem") THEN JsStr("practice")
        ELSE IF resourceType = JsStr("youtube") \/ resourceType = JsStr("playlist")
             THEN JsStr("video")
             ELSE resourceType

BuildResource(res) == [type |-> ResourceType(res)]

\* A topic mapping that reads the hours under the snake_case name only.
BuildTopicSnakeHours(topic, phaseIdx, topicIdx) ==
    [topicId |-> JsOr(topic.id, JsOr(topic.topicId,
                      JsStr("topic_" \o ToString(phaseIdx) \o "_" \o ToString(topicIdx)))),
     description |-> JsOr(topic.description, JsStr("")),
     difficulty |-> JsOr(topic.difficulty, JsStr("medium")),
     estimatedHours |-> JsOr(topic.estimated_hours, JsNum(1)),
     resources |-> [i \in DOMAIN JsArr(topic.resources) |->
                        BuildResource(JsArr(topic.resources)[i])],
     order |-> JsOr(topic.order, JsNum(topicIdx + 1))]

BuildTopic(topic, phaseIdx, topicIdx) ==
    [topicId |-> JsOr(topic.id, JsOr(topic.topicId,
                      JsStr("topic_" \o ToString(phaseIdx) \o "_" \o ToString(topicIdx)))),
     description |-> JsOr(topic.description, JsStr("")),
     difficulty |-> JsOr(topic.difficulty, JsStr("medium")),
     estimatedHours |-> JsOr(topic.estimated_hours, JsOr(topic.estimatedHours, JsNum(1))),
     resources |-> [i \in DOMAIN JsArr(topic.resources) |->
                        BuildResource(JsArr(topic.resources)[i])],
     order |-> JsOr(topic.order, JsNum(topicIdx + 1))]

\* phaseIdx and topicIdx are the 0-based indices of Array.prototype.map.
BuildPhase(phase, phaseIdx) ==
    [phaseNumber |-> JsOr(phase.phase_number, JsOr(phase.phaseNumber, JsNum(phaseIdx + 1))),
     phaseName |-> Trim(JsOr(phase.phase_name, JsOr(phase.phaseName,
                        JsStr("Phase " \o ToString(phaseIdx + 1))))),
     totalHours |-> JsOr(phase.total_hours, JsOr(phase.totalHours, JsNum(0))),
     topics |-> [j \in DOMAIN JsArr(phase.topics) |->
                     BuildTopic(JsArr(phase.topics)[j], phaseIdx, j - 1)]]

BuildRoadmap(userId, chatId, ragResponse) ==
    [userId |-> userId,
     chatId |-> chatId,
     title |-> Trim(TruncateTitle(JsOr(ragResponse.title, JsStr("Learning Roadmap")))),
     aiSummary |-> Trim(JsOr(ragResponse.ai_summary, JsOr(ragResponse.aiSummary, JsStr("")))),
     totalTopics |-> JsOr(ragResponse.total_topics, JsOr(ragResponse.totalTopics, JsNum(0))),
     totalHours |-> JsOr(ragResponse.total_hours, JsOr(ragResponse.totalHours, JsNum(0))),
     phases |-> [i \in DOMAIN JsArr(ragResponse.phases) |->
                     BuildPhase(JsArr(ragResponse.phases)[i], i - 1)]]

(***************************************************************************)
(* The schema validators that roadmap.save() runs (ResourceSchema,         *)
(* TopicSchema, PhaseSchema, RoadmapSchema).  A number field accepts a     *)
(* number; the strings of the payload sets below are not numeric, so a     *)
(* string in a number field is a cast error.                               *)
(***************************************************************************)
ResourceTypeEnum ==
    {"video", "youtube", "playlist", "article", "practice", "problem",
     "documentation", "book"}

DifficultyEnum == {"easy", "medium", "hard"}

RequiredString(v) == v.t = "str" /\ v.s # ""

RequiredNumber(v) == v.t = "num"

NumberMin0(v) == v.t = "num" /\ v.n >= 0

ValidResource(res) == res.type.t = "str" /\ res.type.s \in ResourceTypeEnum

ValidTopic(topic) ==
    /\ RequiredString(topic.topicId)
    /\ RequiredString(topic.description)
    /\ topic.difficulty.t = "str" /\ topic.difficulty.s \in DifficultyEnum
    /\ NumberMin0(topic.estimatedHours)
    /\ RequiredNumber(topic.order)
    /\ \A i \in DOMAIN topic.resources : ValidResource(topic.resources[i])

ValidPhase(phase) ==
    /\ RequiredNumber(phase.phaseNumber)
    /\ RequiredString(phase.phaseName)
    /\ NumberMin0(phase.totalHours)
    /\ \A j \in DOMAIN phase.topics : ValidTopic(phase.topics[j])

ValidRoadmap(doc) ==
    /\ RequiredString(doc.title) /\ Len(doc.title.s) <= MaxTitleLen
    /\ NumberMin0(doc.totalTopics)
    /\ NumberMin0(doc.totalHours)
    /\ \A i \in DOMAIN doc.phases : ValidPhase(doc.phases[i])

\* The document as stored once it has passed validation: plain values.
StoredTopic(topic) ==
    [topicId |-> topic.topicId.s,
     difficulty |-> topic.difficulty.s,
     estimatedHours |-> topic.estimatedHours.n,
     order |-> topic.order.n,
     resources |-> [i \in DOMAIN topic.resources |-> [type |-> topic.resources[i].type.s]]]

StoredPhase(phase) ==
    [phaseNumber |-> phase.phaseNumber.n,
     phaseName |-> phase.phaseName.s,
     totalHours |-> phase.totalHours.n,
     topics |-> [j \in DOMAIN phase.topics |-> StoredTopic(phase.topics[j])]]

StoredRoadmap(doc) ==
    [userId |-> doc.userId,
     chatId |-> doc.chatId,
     title |-> doc.title.s,
     aiSummary |-> doc.aiSummary.s,
     totalTopics |-> doc.totalTopics.n,
     totalHours |-> doc.totalHours.n,
     phases |-> [i \in DOMAIN doc.phases |-> StoredPhase(doc.phases[i])]]

NoRoadmap == [userId |-> "", chatId |-> "", title |-> "", aiSummary |-> "",
              totalTopics |-> 0, totalHours |-> 0, phases |-> <<>>]

\* createFromRAG: build, validate, save.  ok = FALSE is the thrown
\* ValidationError; nothing is stored then.
createFromRAG(userId, chatId, ragResponse) ==
    LET doc == BuildRoadmap(userId, chatId, ragResponse)
    IN  IF ValidRoadmap(doc)
        THEN [ok |-> TRUE, roadmap |-> StoredRoadmap(doc)]
        ELSE [ok |-> FALSE, roadmap |-> NoRoadmap]

\* All Topics of a stored Plan, phase after phase.
RECURSIVE FlattenTopics(_)
FlattenTopics(phases) ==
    IF phases = <<>> THEN <<>>
    ELSE Head(phases).topics \o FlattenTopics(Tail(phases))

TopicCount(roadmap) == Len(FlattenTopics(roadmap.phases))

TopicHours(roadmap) ==
    LET ts == FlattenTopics(roadmap.phases)
    IN  SumSeq([i \in DOMAIN ts |-> ts[i].estimatedHours])

(***************************************************************************)
(* Payloads of the Generation Service.                                     *)
(***************************************************************************)
MaxPhases == 2

MaxTopics == 2

MaxResources == 1

SeqUpTo(S, k) == UNION {[1..m -> S] : m \in 0..k}

\* A payload in which every field is well formed; the sets below vary some
\* of its fields.
BaseResource == [type |-> JsStr("article")]

BaseTopic ==
    [id |-> JsStr("t"), topicId |-> JsUndef, description |-> JsStr("d"),
     difficulty |-> JsStr("easy"), estimated_hours |-> JsNum(2),
     estimatedHours |-> JsUndef, order |-> JsUndef, resources |-> Missing]

BasePhase ==
    [phase_number |-> JsUndef, phaseNumber |-> JsUndef,
     phase_name |-> JsUndef, phaseName |-> JsUndef,
     total_hours |-> JsUndef, totalHours |-> JsUndef,
     topics |-> Present(<<BaseTopic>>)]

BasePayload ==
    [title |-> JsStr("Plan"), ai_summary |-> JsUndef, aiSummary |-> JsUndef,
     total_topics |-> JsUndef, totalTopics |-> JsUndef,
     total_hours |-> JsUndef, totalHours |-> JsUndef,
     phases |-> Present(<<BasePhase>>)]

\* Payloads whose claimed totals and whose numbers of phases and topics vary.
HoursTopics == {[BaseTopic EXCEPT !.estimated_hours = h] : h \in {JsUndef, JsNum(3)}}

TotalsPhases == {[BasePhase EXCEPT !.topics = Present(ts)] : ts \in SeqUpTo(HoursTopics, MaxTopics)}

TotalsPayloads ==
    {[BasePayload EXCEPT !.total_topics = a, !.totalTopics = b,
                         !.total_hours = c, !.totalHours = d, !.phases = p] :
        a \in {JsUndef, JsNum(3)}, b \in {JsUndef, JsNum(1)},
        c \in {JsUndef, JsNum(7)}, d \in {JsUndef, JsNum(2)},
        p \in {Missing} \cup {Present(ps) : ps \in SeqUpTo(TotalsPhases, MaxPhases)}}

\* Payloads whose resource types vary.
ResourceTypeInputs ==
    {JsUndef} \cup
    {JsStr(x) : x \in {"problem", "youtube", "playlist", "article", "video",
                       "practice", "documentation", "book", "podcast", ""}}

ResourcePayloads ==
    {[BasePayload EXCEPT !.phases = Present(<<[BasePhase EXCEPT !.topics =
          Present(<<[BaseTopic EXCEPT !.resources = Present(rs)]>>)]>>)] :
        rs \in SeqUpTo({[type |-> x] : x \in ResourceTypeInputs}, MaxResources) \ {<<>>}}

\* Payloads whose title varies: absent, empty, blank, padded, and around
\* the maximum length.
RECURSIVE Filler(_)
Filler(n) ==
    IF n = 0 THEN ""
    ELSE IF n % 2 = 1 THEN "a" \o Filler(n - 1)
    ELSE LET half == Filler(n \div 2) IN half \o half

TitleInputs ==
    {JsUndef, JsStr(""), JsStr("  "), JsStr("Plan"), JsStr(" Plan "),
     JsStr(Filler(MaxTitleLen - 1)), JsStr(Filler(MaxTitleLen)),
     JsStr(Filler(MaxTitleLen + 1)), JsStr(Filler(MaxTitleLen + 100)),
     JsStr(" " \o Filler(MaxTitleLen))}

TitlePayloads == {[BasePayload EXCEPT !.title = t] : t \in TitleInputs}

\* Payloads that use the snake_case names only, with truthy and falsy values.
SnakeTopics ==
    {[BaseTopic EXCEPT !.id = i, !.estimated_hours = h] :
        i \in {JsUndef, JsStr("t")}, h \in {JsUndef, JsNum(0), JsNum(3)}}

SnakePhases ==
    {[BasePhase EXCEPT !.phase_number = n, !.phase_name = m, !.total_hours = h,
                       !.topics = Present(<<t>>)] :
        n \in {JsUndef, JsNum(2)}, m \in {JsUndef, JsStr("Basics")},
        h \in {JsUndef, JsNum(5)}, t \in SnakeTopics}

SnakePayloads ==
    {[BasePayload EXCEPT !.ai_summary = a, !.total_topics = n, !.total_hours = h,
                         !.phases = Present(<<p>>)] :
        a \in {JsUndef, JsStr("sum")}, n \in {JsUndef, JsNum(0), JsNum(3)},
        h \in {JsUndef, JsNum(7)}, p \in SnakePhases}

\* A payload names its fields in snake_case only.
SnakeOnlyTopic(t) == t.topicId = JsUndef /\ t.estimatedHours = JsUndef

SnakeOnlyPhase(ph) ==
    /\ ph.phaseNumber = JsUndef /\ ph.phaseName = JsUndef /\ ph.totalHours = JsUndef
    /\ \A j \in DOMAIN JsArr(ph.topics) : SnakeOnlyTopic(JsArr(ph.topics)[j])

SnakeOnly(p) ==
    /\ p.aiSummary = JsUndef /\ p.totalTopics = JsUndef /\ p.totalHours = JsUndef
    /\ \A i \in DOMAIN JsArr(p.phases) : SnakeOnlyPhase(JsArr(p.phases)[i])

\* The same payload with every snake_case name replaced by its camelCase
\* name (id becomes topicId).
CamelTopic(t) ==
    [t EXCEPT !.topicId = t.id, !.id = JsUndef,
              !.estimatedHours = t.estimated_hours, !.estimated_hours = JsUndef]

CamelPhase(ph) ==
    [ph EXCEPT !.phaseNumber = ph.phase_number, !.phase_number = JsUndef,
               !.phaseName = ph.phase_name, !.phase_name = JsUndef,
               !.totalHours = ph.total_hours, !.total_hours = JsUndef,
               !.topics = IF ph.topics.present
                          THEN Present([j \in DOMAIN ph.topics.items |->
                                           CamelTopic(ph.topics.items[j])])
                          ELSE Missing]

CamelCase(p) ==
    [p EXCEPT !.aiSummary = p.ai_summary, !.ai_summary = JsUndef,
              !.totalTopics = p.total_topics, !.total_topics = JsUndef,
              !.totalHours = p.total_hours, !.total_hours = JsUndef,
              !.phases = IF p.phases.present
                         THEN Present([i \in DOMAIN p.phases.items |->
                                          CamelPhase(p.phases.items[i])])
                         ELSE Missing]

\* Payloads whose hours vary: absent, zero, positive, negative, not a number.
TopicHoursInputs == {JsUndef, JsNum(0), JsNum(3), JsNum(-1), JsStr("abc")}

PhaseHoursInputs == {JsUndef, JsNum(0), JsNum(5), JsNum(-2), JsStr("many")}

HoursPayloads ==
    {[BasePayload EXCEPT !.phases = Present(<<[BasePhase EXCEPT !.total_hours = ph,
          !.topics = Present(<<[BaseTopic EXCEPT !.estimated_hours = h]>>)]>>)] :
        h \in TopicHoursInputs, ph \in PhaseHoursInputs}

\* Payloads in which every, some or no phase carries a phase number.
PhaseNumberInputs == {JsUndef, JsNum(1), JsNum(2), JsNum(3)}

PhaseNumberPayloads ==
    {[BasePayload EXCEPT !.phases = Present(ps)] :
        ps \in SeqUpTo({[BasePhase EXCEPT !.phase_number = n] : n \in PhaseNumberInputs},
                       MaxPhases) \ {<<>>}}

NormPayloads ==
    TotalsPayloads \cup ResourcePayloads \cup TitlePayloads \cup SnakePayloads
        \cup HoursPayloads \cup PhaseNumberPayloads

(***************************************************************************)
(* The chat routes.  Users, chats and the texts a client sends.            *)
(***************************************************************************)
MIN_MESSAGES_FOR_ROADMAP == 4

Users == {"u1", "u2"}

ChatIds == {"c1"}

Slots == {1, 2}

\* Number of requests that get past their ownership lookup in a behaviour.
MaxRequests == 3

\* A behaviour starts with an empty store or with a chat that has had
\* HistoryTurns plain conversational turns (PATH B, no generation), one
\* short of the threshold.
HistoryTurns == MIN_MESSAGES_FOR_ROADMAP - 1

\* Number of requests that may arrive while another one is in flight.
MaxOverlap == 1

Texts == {"i want to learn dsa"}

\* req.body.title of POST /new: absent, or a title.
NewTitles == {JsUndef, JsStr("My plan")}

\* generateSmartTitle on the texts of Texts: the filler phrase
\* 'i want to learn' is replaced by 'Learn', the first letter is
\* capitalised; a result shorter than 3 characters becomes the fallback.
generateSmartTitle(firstMessage) ==
    LET title == IF firstMessage = "i want to learn dsa" THEN "Learn dsa"
                 ELSE IF firstMessage = "hi" THEN ""
                 ELSE firstMessage
    IN  IF Len(title) > 50 THEN SubSeq(title, 1, 47) \o "..."
        ELSE IF Len(title) < 3 THEN "New Learning Path"
        ELSE title

\* content.slice(0, 50) + (content.length > 50 ? '...' : '')
SliceTitle(content) ==
    IF Len(content) > 50 THEN SubSeq(content, 1, 50) \o "..." ELSE content

Message(role, kind, text, req) == [role |-> role, kind |-> kind, text |-> text, req |-> req]

UserMessages(messages) == SelectSeq(messages, LAMBDA m : m.role = "user")

\* ChatSchema.methods.shouldGenerateRoadmap
shouldGenerateRoadmap(chat) ==
    Len(UserMessages(chat.messages)) >= 4 /\ ~chat.roadmapGenerated

(***************************************************************************)
(* Payloads and outcomes of the two calls to the Generation Service.       *)
(***************************************************************************)
\* A payload that passes the schema and one that does not (its resource
\* type is outside the enum, so roadmap.save() throws a ValidationError).
GoodPayload == BasePayload

BadPayload ==
    [BasePayload EXCEPT !.phases = Present(<<[BasePhase EXCEPT !.topics =
        Present(<<[BaseTopic EXCEPT !.resources =
            Present(<<[type |-> JsStr("podcast")]>>)]>>)]>>)]

TurnPayloads == {GoodPayload, BadPayload}

\* The error of a failed axios call: error.code, whether error.response is
\* set, error.response.data.detail and error.message.  One error for each
\* fault (class): connection refused, a non-2xx answer with an error body,
\* a timeout, and another network fault.
RagFault(class, code, response, detail, message) ==
    [class |-> class, code |-> code, response |-> response, detail |-> detail,
     message |-> message]

RagFaults ==
    {RagFault("refused", "ECONNREFUSED", FALSE, JsUndef, "connect ECONNREFUSED"),
     RagFault("rejected", "ERR_BAD_RESPONSE", TRUE, JsStr("quota exceeded"),
              "Request failed with status code 500"),
     RagFault("timeout", "ECONNABORTED", FALSE, JsUndef, "timeout of 90000ms exceeded"),
     RagFault("network", "ECONNRESET", FALSE, JsUndef, "socket hang up")}

\* A classification that gives the timeout a message of its own.
RagErrorTimeout(error) ==
    IF error.code = "ECONNREFUSED"
    THEN "RAG service is not running. Please start it on port 8001."
    ELSE IF error.response
    THEN "RAG service error: " \o JsOr(error.detail, JsStr(error.message)).s
    ELSE IF error.code = "ECONNABORTED"
    THEN "RAG service timed out"
    ELSE "Failed to connect to RAG service"

\* The catch of callRAGGenerate: the message of the Error it throws.
RagError(error) ==
    IF error.code = "ECONNREFUSED"
    THEN "RAG service is not running. Please start it on port 8001."
    ELSE IF error.response
    THEN "RAG service error: " \o JsOr(error.detail, JsStr(error.message)).s
    ELSE "Failed to connect to RAG service"

(***************************************************************************)
(* State.                                                                  *)
(***************************************************************************)
VARIABLES
    chats,        \* the chats collection: ChatIds -> document
    roadmaps,     \* the roadmaps collection: roadmap id -> document
    reqs,         \* the request each task is handling, with its in-memory chat document
    nreq,         \* number of requests that got past their lookup so far
    nover,        \* number of requests that arrived while another was in flight
    quota,        \* number of requests that may still get past their lookup
    lastTurn,     \* history: how the last finished operation on each chat ended
    ragInput,     \* SpecNorm: the payload handed to createFromRAG
    normOut,      \* SpecNorm: what createFromRAG returned for it
    normAlt,      \* SpecNorm: what it returned for the camelCase form of the payload
    progress,     \* the progress collection: record id -> document
    trail         \* history: completion states of each (user, plan, topic) after its last toggles

vars == <<chats, roadmaps, reqs, nreq, nover, quota, lastTurn, ragInput, normOut, normAlt,
         progress, trail>>

RoadmapIds == 1..(HistoryTurns + MaxRequests)

\* st: "free" (id not yet issued), "live", "deleted".
FreeChat ==
    [st |-> "free", userId |-> "", title |-> "", messages |-> <<>>,
     roadmapGenerated |-> FALSE, roadmapId |-> 0]

FreeRoadmap == [st |-> "free", doc |-> NoRoadmap]

\* The in-memory Mongoose document of a request: the fields it read, the
\* messages it pushed and has not saved yet, and its modified paths.
NoDoc == [title |-> "", messages |-> <<>>, roadmapGenerated |-> FALSE, roadmapId |-> 0]

IdleReq ==
    [pc |-> "idle", kind |-> "none", user |-> "", chatId |-> "", text |-> "",
     num |-> 0, chat |-> NoDoc, pending |-> <<>>, dirty |-> {},
     adv |-> "none", afterFailed |-> FALSE, status |-> 0,
     fault |-> "none", details |-> "", chatGone |-> FALSE]

NotRun == [ok |-> FALSE, roadmap |-> NoRoadmap, ran |-> FALSE]

\* The handler has finished: the response is on its way out.
Done(r, status) ==
    [IdleReq EXCEPT !.pc = "respond", !.kind = r.kind, !.status = status,
                    !.chatId = r.chatId, !.text = r.text, !.num = r.num,
                    !.fault = r.fault, !.details = r.details, !.chatGone = r.chatGone]

Rejected(kind, status) == [IdleReq EXCEPT !.pc = "respond", !.kind = kind, !.status = status]

(***************************************************************************)
(* Mongoose document operations on the in-memory chat of a request.        *)
(***************************************************************************)
\* ChatSchema.methods.addMessage up to its save(): push, auto title.
addMessage(r, role, kind, text) ==
    LET m == Message(role, kind, text, r.num)
        msgs == r.chat.messages \o <<m>>
        auto == r.chat.title = "New Chat" /\ role = "user" /\ Len(msgs) = 1
    IN  [r EXCEPT !.chat.messages = msgs,
                  !.pending = @ \o <<m>>,
                  !.chat.title = IF auto THEN SliceTitle(text) ELSE @,
                  !.dirty = IF auto /\ SliceTitle(text) # r.chat.title
                            THEN @ \cup {"title"} ELSE @]

\* chat.save(): $push of the pushed messages, $set of the modified paths.
\* The stored document must still exist (DocumentNotFoundError otherwise).
CanSave(r) == chats[r.chatId].st = "live"

\* A save that writes the whole in-memory messages array back ($set)
\* instead of pushing the new messages ($push).
SavedChatOverwrite(r) ==
    [chats[r.chatId] EXCEPT
        !.messages = r.chat.messages,
        !.title = IF "title" \in r.dirty THEN r.chat.title ELSE @,
        !.roadmapGenerated = IF "link" \in r.dirty THEN r.chat.roadmapGenerated ELSE @,
        !.roadmapId = IF "link" \in r.dirty THEN r.chat.roadmapId ELSE @]

SavedChat(r) ==
    [chats[r.chatId] EXCEPT
        !.messages = @ \o r.pending,
        !.title = IF "title" \in r.dirty THEN r.chat.title ELSE @,
        !.roadmapGenerated = IF "link" \in r.dirty THEN r.chat.roadmapGenerated ELSE @,
        !.roadmapId = IF "link" \in r.dirty THEN r.chat.roadmapId ELSE @]

Saved(r) == [r EXCEPT !.pending = <<>>, !.dirty = {}]

SetTitle(r, title) ==
    [r EXCEPT !.chat.title = title,
              !.dirty = IF title # r.chat.title THEN @ \cup {"title"} ELSE @]

(***************************************************************************)
(* The progress collection (models/Progress.js).                           *)
(***************************************************************************)
\* Number of progress and roadmap requests that get past their ownership
\* lookup in a behaviour of SpecProg.
MaxCalls == 3

ProgressIds == 1..(MaxCalls + 1)

\* The _id Mongoose gives the topic at position j of phase i of roadmap rid.
TopicOid(rid, i, j) == <<rid, i, j>>

\* roadmapId and topicId as clients send them: the stored roadmap and an
\* id that was never issued; two topics of the stored roadmap and an id
\* that is no topic of it.
PlanInputs == {1, 2}

TopicInputs == {TopicOid(1, 1, 1), TopicOid(1, 1, 2), TopicOid(0, 0, 0)}

Tuples == Users \X PlanInputs \X TopicInputs

\* completedAt: 0 is null, a date is the number of the request that set it.
FreeProgress ==
    [st |-> "free", userId |-> "", roadmapId |-> 0, topicId |-> TopicOid(0, 0, 0),
     completed |-> FALSE, completedAt |-> 0]

\* A hook whose two branches are exchanged.
PreSaveSwapped(doc, modifiedCompleted, now) ==
    IF modifiedCompleted /\ doc.completed THEN [doc EXCEPT !.completedAt = 0]
    ELSE IF modifiedCompleted /\ doc.completedAt = 0 THEN [doc EXCEPT !.completedAt = now]
    ELSE doc

\* ProgressSchema.pre('save')
PreSave(doc, modifiedCompleted, now) ==
    LET stamped == IF modifiedCompleted /\ doc.completed /\ doc.completedAt = 0
                   THEN [doc EXCEPT !.completedAt = now] ELSE doc
    IN  IF modifiedCompleted /\ ~stamped.completed
        THEN [stamped EXCEPT !.completedAt = 0] ELSE stamped

\* The records the query { userId, roadmapId, topicId } matches.
Matching(u, rid, tid) ==
    {i \in ProgressIds : /\ progress[i].st = "live"
                         /\ progress[i].userId = u
                         /\ progress[i].roadmapId = rid
                         /\ progress[i].topicId = tid}

\* An index that is not unique rejects nothing.
DuplicateKeyNever(doc) == FALSE

\* The unique index { userId, roadmapId, topicId } rejects the insert.
DuplicateKey(doc) == Matching(doc.userId, doc.roadmapId, doc.topicId) # {}

\* Progress.deleteMany({ roadmapId })
DeleteMany(rid) ==
    [i \in ProgressIds |->
        IF progress[i].st = "live" /\ progress[i].roadmapId = rid
        THEN [progress[i] EXCEPT !.st = "deleted"] ELSE progress[i]]

\* The completion state of a tuple: an absent record counts as not completed.
Completed(k) == \E i \in Matching(k[1], k[2], k[3]) : progress[i].completed

NoTrail == [k \in Tuples |-> <<FALSE>>]

(***************************************************************************)
(* Init.                                                                   *)
(***************************************************************************)
\* The chat after k plain turns: k user messages, each answered by the
\* advisory reply; the title is the smart title of the first message.
History(k) ==
    [i \in 1..(2 * k) |->
        IF i % 2 = 1 THEN Message("user", "user", "i want to learn dsa", (i + 1) \div 2)
        ELSE Message("assistant", "reply", "", i \div 2)]

HistoryChat(k) ==
    [st |-> "live", userId |-> "u1", title |-> generateSmartTitle("i want to learn dsa"),
     messages |-> History(k), roadmapGenerated |-> FALSE, roadmapId |-> 0]

Init ==
    /\ \E k \in {0, HistoryTurns} :
          /\ chats \in {[c \in ChatIds |-> IF k = 0 THEN FreeChat ELSE HistoryChat(k)]}
          /\ nreq = k
          /\ lastTurn = [c \in ChatIds |-> IF k = 0 THEN "none" ELSE "ok"]
    /\ roadmaps = [i \in RoadmapIds |-> FreeRoadmap]
    /\ reqs = [s \in Slots |-> IdleReq]
    /\ nover = 0
    /\ quota = MaxRequests
    /\ ragInput = BasePayload
    /\ normOut = NotRun
    /\ normAlt = NotRun
    /\ progress = [i \in ProgressIds |-> FreeProgress]
    /\ trail = NoTrail

(***************************************************************************)
(* POST /api/chat/new                                                      *)
(***************************************************************************)
NewChat(u, c, title) ==
    /\ chats[c].st = "free"
    /\ chats' = [chats EXCEPT ![c] =
                    [FreeChat EXCEPT !.st = "live", !.userId = u,
                                     !.title = JsOr(title, JsStr("New Chat")).s]]
    /\ UNCHANGED <<roadmaps, reqs, nreq, nover, quota, lastTurn, ragInput, normOut, normAlt, progress, trail>>

\* Chat.findOne({ _id: chatId, userId: req.user._id })
FindChat(c, u) == chats[c].st = "live" /\ chats[c].userId = u

Loaded(c) ==
    [title |-> chats[c].title, messages |-> chats[c].messages,
     roadmapGenerated |-> chats[c].roadmapGenerated, roadmapId |-> chats[c].roadmapId]

Idle(s) == reqs[s].pc = "idle"

\* A request is taken by the first free task.  One that arrives while
\* another request is in flight uses up the overlap budget.
Overlapping(s) == \E t \in Slots \ {s} : ~Idle(t)

Arrive(s) ==
    /\ Idle(s)
    /\ \A t \in Slots : t < s => ~Idle(t)
    /\ Overlapping(s) => nover < MaxOverlap
    /\ nover' = IF Overlapping(s) THEN nover + 1 ELSE nover

\* res.json(...) / res.status(...).json(...): the task is free again.
Respond(s) ==
    /\ reqs[s].pc = "respond"
    /\ reqs' = [reqs EXCEPT ![s] = IdleReq]
    /\ UNCHANGED <<chats, roadmaps, nreq, nover, quota, lastTurn, ragInput, normOut, normAlt, progress, trail>>

(***************************************************************************)
(* POST /api/chat/:chatId/message                                          *)
(***************************************************************************)
\* A turn whose PATH B goes to the /chat call without the delay.
AfterUserMessageNoDelay(r) ==
    IF shouldGenerateRoadmap(r.chat) THEN "loading" ELSE "chat_wait"

\* The next await after the user message (and the title) is saved: the
\* loading message of PATH A or the delay of PATH B.
AfterUserMessage(r) ==
    IF shouldGenerateRoadmap(r.chat) THEN "loading" ELSE "delay"

MessageRejected(s, u, c) ==
    /\ Arrive(s)
    /\ reqs' = [reqs EXCEPT ![s] = Rejected("message", 400)]
    /\ UNCHANGED <<chats, roadmaps, nreq, quota, lastTurn, ragInput, normOut, normAlt, progress, trail>>

MessageChatNotFound(s, u, c) ==
    /\ Arrive(s)
    /\ ~FindChat(c, u)
    /\ reqs' = [reqs EXCEPT ![s] = Rejected("message", 404)]
    /\ UNCHANGED <<chats, roadmaps, nreq, quota, lastTurn, ragInput, normOut, normAlt, progress, trail>>

MessageFindChat(s, u, c, text) ==
    /\ Arrive(s)
    /\ quota > 0
    /\ quota' = quota - 1
    /\ FindChat(c, u)
    /\ nreq' = nreq + 1
    /\ reqs' = [reqs EXCEPT ![s] =
                  [IdleReq EXCEPT !.pc = "add_user", !.kind = "message", !.user = u,
                                  !.chatId = c, !.text = text, !.num = nreq + 1,
                                  !.chat = Loaded(c),
                                  !.afterFailed = lastTurn[c] = "failed"]]
    /\ UNCHANGED <<chats, roadmaps, lastTurn, ragInput, normOut, normAlt, progress, trail>>

\* STEP 1: await chat.addMessage('user', message)
SaveUserMessage(s) ==
    /\ reqs[s].pc = "add_user"
    /\ LET r == addMessage(reqs[s], "user", "user", reqs[s].text)
       IN  IF CanSave(r)
           THEN /\ chats' = [chats EXCEPT ![r.chatId] = SavedChat(r)]
                /\ reqs' = [reqs EXCEPT ![s] =
                              [Saved(r) EXCEPT !.pc =
                                  IF Len(UserMessages(r.chat.messages)) = 1
                                  THEN "smart_title" ELSE AfterUserMessage(r)]]
           ELSE /\ reqs' = [reqs EXCEPT ![s] = Done(r, 500)]
                /\ UNCHANGED chats
    /\ UNCHANGED <<roadmaps, nreq, nover, quota, lastTurn, ragInput, normOut, normAlt, progress, trail>>

\* chat.title = generateSmartTitle(message); await chat.save()
SaveSmartTitle(s) ==
    /\ reqs[s].pc = "smart_title"
    /\ LET r == SetTitle(reqs[s], generateSmartTitle(reqs[s].text))
       IN  IF CanSave(r)
           THEN /\ chats' = [chats EXCEPT ![r.chatId] = SavedChat(r)]
                /\ reqs' = [reqs EXCEPT ![s] = [Saved(r) EXCEPT !.pc = AfterUserMessage(r)]]
           ELSE /\ reqs' = [reqs EXCEPT ![s] = Done(r, 500)]
                /\ UNCHANGED chats
    /\ UNCHANGED <<roadmaps, nreq, nover, quota, lastTurn, ragInput, normOut, normAlt, progress, trail>>

\* PATH A: await chat.addMessage('assistant', 'I have enough information! ...');
\* then callRAGGenerate is issued.
SaveLoadingMessage(s) ==
    /\ reqs[s].pc = "loading"
    /\ LET r == addMessage(reqs[s], "assistant", "roadmap_trigger", "")
       IN  IF CanSave(r)
           THEN /\ chats' = [chats EXCEPT ![r.chatId] = SavedChat(r)]
                /\ reqs' = [reqs EXCEPT ![s] = [Saved(r) EXCEPT !.pc = "gen_wait"]]
           ELSE /\ reqs' = [reqs EXCEPT ![s] = Done(r, 500)]
                /\ UNCHANGED chats
    /\ UNCHANGED <<roadmaps, nreq, nover, quota, lastTurn, ragInput, normOut, normAlt, progress, trail>>

\* PATH B: await delay(5000); then axios.post(RAG_SERVICE_URL/chat) is issued.
Cooldown(s) ==
    /\ reqs[s].pc = "delay"
    /\ reqs' = [reqs EXCEPT ![s].pc = "chat_wait"]
    /\ UNCHANGED <<chats, roadmaps, nreq, nover, quota, lastTurn, ragInput, normOut, normAlt, progress, trail>>

\* The /chat call returns; await chat.addMessage('assistant', aiResponse, ...);
\* if should_generate_roadmap, callRAGGenerate is issued.  A failed save
\* lands in catch (chatError), whose own addMessage fails the same way and
\* leaves through the outer catch.
ChatReply(s, shouldGenerate) ==
    /\ reqs[s].pc = "chat_wait"
    /\ LET r == addMessage(reqs[s], "assistant", "reply", "")
       IN  IF CanSave(r)
           THEN /\ chats' = [chats EXCEPT ![r.chatId] = SavedChat(r)]
                /\ reqs' = [reqs EXCEPT ![s] =
                              IF shouldGenerate
                              THEN [Saved(r) EXCEPT !.pc = "gen_wait", !.adv = "yes"]
                              ELSE Done(r, 200)]
           ELSE /\ reqs' = [reqs EXCEPT ![s] = Done(r, 500)]
                /\ UNCHANGED chats
    /\ UNCHANGED <<roadmaps, nreq, nover, quota, ragInput, normOut, normAlt, progress, trail>>
    /\ lastTurn' = [lastTurn EXCEPT ![reqs[s].chatId] = IF reqs'[s].pc = "respond" /\ reqs'[s].status = 200 THEN "ok" ELSE @]

\* The /chat call fails: catch (chatError) adds the fallback message.
ChatFails(s) ==
    /\ reqs[s].pc = "chat_wait"
    /\ LET r == addMessage(reqs[s], "assistant", "fallback", "")
       IN  IF CanSave(r)
           THEN /\ chats' = [chats EXCEPT ![r.chatId] = SavedChat(r)]
                /\ reqs' = [reqs EXCEPT ![s] = Done(r, 200)]
           ELSE /\ reqs' = [reqs EXCEPT ![s] = Done(r, 500)]
                /\ UNCHANGED chats
    /\ UNCHANGED <<roadmaps, nreq, nover, quota, ragInput, normOut, normAlt, progress, trail>>
    /\ lastTurn' = [lastTurn EXCEPT ![reqs[s].chatId] = IF reqs'[s].pc = "respond" /\ reqs'[s].status = 200 THEN "ok" ELSE @]

(***************************************************************************)
(* The generation steps, written three times in chat.js (PATH A, PATH B,   *)
(* generate-roadmap): callRAGGenerate, createFromRAG, title sync, link.    *)
(***************************************************************************)
\* What the enclosing catch does: the message route adds the error message
\* (catch (ragError)), generate-roadmap answers 500 (outer catch).
Failed(r) ==
    IF r.kind = "message" THEN [r EXCEPT !.pc = "error_msg"] ELSE Done(r, 500)

\* callRAGGenerate returns response.data; Roadmap.createFromRAG saves the
\* new roadmap, or throws.
GenerateSucceeds(s, ragResponse) ==
    /\ reqs[s].pc = "gen_wait"
    /\ LET r == reqs[s]
           made == createFromRAG(r.user, r.chatId, ragResponse)
       IN  IF made.ok
           THEN /\ roadmaps' = [roadmaps EXCEPT ![r.num] = [st |-> "live", doc |-> made.roadmap]]
                /\ reqs' = [reqs EXCEPT ![s].pc = "title_sync"]
           ELSE /\ reqs' = [reqs EXCEPT ![s] =
                              Failed([r EXCEPT !.details = "Roadmap validation failed"])]
                /\ UNCHANGED roadmaps
    /\ UNCHANGED <<chats, nreq, nover, quota, lastTurn, ragInput, normOut, normAlt, progress, trail>>

\* callRAGGenerate throws: ragError.message is the message of its catch.
GenerateFails(s, fault) ==
    /\ reqs[s].pc = "gen_wait"
    /\ reqs' = [reqs EXCEPT ![s] =
                  Failed([reqs[s] EXCEPT !.fault = fault.class,
                                         !.details = RagError(fault)])]
    /\ UNCHANGED <<chats, roadmaps, nreq, nover, quota, lastTurn, ragInput, normOut, normAlt, progress, trail>>

\* roadmap.title = chat.title; await roadmap.save()
SyncTitle(s) ==
    /\ reqs[s].pc = "title_sync"
    /\ LET r == reqs[s]
           modified == roadmaps[r.num].doc.title # r.chat.title
       IN  IF ~modified
           THEN /\ reqs' = [reqs EXCEPT ![s].pc = "link"]
                /\ UNCHANGED roadmaps
           ELSE IF r.chat.title # "" /\ roadmaps[r.num].st = "live"
           THEN /\ roadmaps' = [roadmaps EXCEPT ![r.num].doc.title = r.chat.title]
                /\ reqs' = [reqs EXCEPT ![s].pc = "link"]
           ELSE /\ reqs' = [reqs EXCEPT ![s] = Failed(r)]
                /\ UNCHANGED roadmaps
    /\ UNCHANGED <<chats, nreq, nover, quota, lastTurn, ragInput, normOut, normAlt, progress, trail>>

\* A link step that sets the flag and leaves roadmapId as it was.
LinkChatFlagOnly(s) ==
    /\ reqs[s].pc = "link"
    /\ LET r == [reqs[s] EXCEPT !.chat.roadmapGenerated = TRUE,
                                !.dirty = @ \cup {"link"}]
       IN  IF CanSave(r)
           THEN /\ chats' = [chats EXCEPT ![r.chatId] = SavedChat(r)]
                /\ reqs' = [reqs EXCEPT ![s] =
                              IF r.kind = "message"
                              THEN [Saved(r) EXCEPT !.pc = "success_msg"]
                              ELSE Done(r, 200)]
           ELSE /\ reqs' = [reqs EXCEPT ![s] = Failed(r)]
                /\ UNCHANGED chats
    /\ UNCHANGED <<roadmaps, nreq, nover, quota, ragInput, normOut, normAlt, progress, trail>>
    /\ lastTurn' = [lastTurn EXCEPT ![reqs[s].chatId] = IF CanSave(reqs[s]) THEN "ok" ELSE @]

\* chat.roadmapGenerated = true; chat.roadmapId = roadmap._id; await chat.save()
LinkChat(s) ==
    /\ reqs[s].pc = "link"
    /\ LET r == [reqs[s] EXCEPT !.chat.roadmapGenerated = TRUE,
                                !.chat.roadmapId = reqs[s].num,
                                !.dirty = @ \cup {"link"}]
       IN  IF CanSave(r)
           THEN /\ chats' = [chats EXCEPT ![r.chatId] = SavedChat(r)]
                /\ reqs' = [reqs EXCEPT ![s] =
                              IF r.kind = "message"
                              THEN [Saved(r) EXCEPT !.pc = "success_msg"]
                              ELSE Done(r, 200)]
           ELSE /\ reqs' = [reqs EXCEPT ![s] = Failed(r)]
                /\ UNCHANGED chats
    /\ UNCHANGED <<roadmaps, nreq, nover, quota, ragInput, normOut, normAlt, progress, trail>>
    /\ lastTurn' = [lastTurn EXCEPT ![reqs[s].chatId] = IF CanSave(reqs[s]) THEN "ok" ELSE @]

\* await chat.addMessage('assistant', "Perfect! I've created ...")
SaveSuccessMessage(s) ==
    /\ reqs[s].pc = "success_msg"
    /\ LET r == addMessage(reqs[s], "assistant", "roadmap_generated", "")
       IN  IF CanSave(r)
           THEN /\ chats' = [chats EXCEPT ![r.chatId] = SavedChat(r)]
                /\ reqs' = [reqs EXCEPT ![s] = Done(r, 200)]
           ELSE /\ reqs' = [reqs EXCEPT ![s] = Failed(r)]
                /\ UNCHANGED chats
    /\ UNCHANGED <<roadmaps, nreq, nover, quota, ragInput, normOut, normAlt, progress, trail>>
    /\ lastTurn' = [lastTurn EXCEPT ![reqs[s].chatId] = IF reqs'[s].pc = "respond" /\ reqs'[s].status = 200 THEN "ok" ELSE @]

\* catch (ragError): await chat.addMessage('assistant', 'I encountered an
\* error ...', { type: 'error' }); res.status(500)
SaveErrorMessage(s) ==
    /\ reqs[s].pc = "error_msg"
    /\ LET r == addMessage(reqs[s], "assistant", "error", "")
       IN  IF CanSave(r)
           THEN /\ chats' = [chats EXCEPT ![r.chatId] = SavedChat(r)]
                /\ reqs' = [reqs EXCEPT ![s] = Done(r, 500)]
           ELSE /\ reqs' = [reqs EXCEPT ![s] = Done(r, 500)]
                /\ UNCHANGED chats
    /\ UNCHANGED <<roadmaps, nreq, nover, quota, ragInput, normOut, normAlt, progress, trail>>
    /\ lastTurn' = [lastTurn EXCEPT ![reqs[s].chatId] = IF CanSave(reqs[s]) THEN "failed" ELSE @]

(***************************************************************************)
(* POST /api/chat/:chatId/generate-roadmap                                 *)
(***************************************************************************)
GenerateChatNotFound(s, u, c) ==
    /\ Arrive(s)
    /\ ~FindChat(c, u)
    /\ reqs' = [reqs EXCEPT ![s] = Rejected("generate", 404)]
    /\ UNCHANGED <<chats, roadmaps, nreq, quota, lastTurn, ragInput, normOut, normAlt, progress, trail>>

GenerateAlreadyGenerated(s, u, c) ==
    /\ Arrive(s)
    /\ FindChat(c, u)
    /\ chats[c].roadmapGenerated
    /\ reqs' = [reqs EXCEPT ![s] = Rejected("generate", 400)]
    /\ UNCHANGED <<chats, roadmaps, nreq, quota, lastTurn, ragInput, normOut, normAlt, progress, trail>>

\* A manual generation that does not look at the flag.
GenerateStartAnyway(s, u, c) ==
    /\ Arrive(s)
    /\ quota > 0
    /\ quota' = quota - 1
    /\ FindChat(c, u)
    /\ nreq' = nreq + 1
    /\ reqs' = [reqs EXCEPT ![s] =
                  [IdleReq EXCEPT !.pc = "gen_wait", !.kind = "generate", !.user = u,
                                  !.chatId = c, !.num = nreq + 1, !.chat = Loaded(c)]]
    /\ UNCHANGED <<chats, roadmaps, lastTurn, ragInput, normOut, normAlt, progress, trail>>

GenerateStart(s, u, c) ==
    /\ Arrive(s)
    /\ quota > 0
    /\ quota' = quota - 1
    /\ FindChat(c, u)
    /\ ~chats[c].roadmapGenerated
    /\ nreq' = nreq + 1
    /\ reqs' = [reqs EXCEPT ![s] =
                  [IdleReq EXCEPT !.pc = "gen_wait", !.kind = "generate", !.user = u,
                                  !.chatId = c, !.num = nreq + 1, !.chat = Loaded(c)]]
    /\ UNCHANGED <<chats, roadmaps, lastTurn, ragInput, normOut, normAlt, progress, trail>>

(***************************************************************************)
(* DELETE /api/chat/:chatId                                                *)
(***************************************************************************)
DeleteChatNotFound(s, u, c) ==
    /\ Arrive(s)
    /\ ~FindChat(c, u)
    /\ reqs' = [reqs EXCEPT ![s] = Rejected("delete", 404)]
    /\ UNCHANGED <<chats, roadmaps, nreq, quota, lastTurn, ragInput, normOut, normAlt, progress, trail>>

DeleteFindChat(s, u, c) ==
    /\ Arrive(s)
    /\ quota > 0
    /\ quota' = quota - 1
    /\ FindChat(c, u)
    /\ nreq' = nreq + 1
    /\ reqs' = [reqs EXCEPT ![s] =
                  [IdleReq EXCEPT !.pc = IF chats[c].roadmapId # 0
                                         THEN "del_roadmap" ELSE "del_chat",
                                  !.kind = "delete", !.user = u, !.chatId = c,
                                  !.num = nreq + 1, !.chat = Loaded(c)]]
    /\ UNCHANGED <<chats, roadmaps, lastTurn, ragInput, normOut, normAlt, progress, trail>>

\* await Roadmap.findByIdAndDelete(chat.roadmapId)
DeleteLinkedRoadmap(s) ==
    /\ reqs[s].pc = "del_roadmap"
    /\ roadmaps' = [roadmaps EXCEPT ![reqs[s].chat.roadmapId].st =
                       IF @ = "live" THEN "deleted" ELSE @]
    /\ reqs' = [reqs EXCEPT ![s].pc = "del_progress"]
    /\ UNCHANGED <<chats, nreq, nover, quota, lastTurn, ragInput, normOut, normAlt, progress, trail>>

\* await Progress.deleteMany({ roadmapId: chat.roadmapId })
DeleteLinkedProgress(s) ==
    /\ reqs[s].pc = "del_progress"
    /\ progress' = DeleteMany(reqs[s].chat.roadmapId)
    /\ reqs' = [reqs EXCEPT ![s].pc = "del_chat"]
    /\ UNCHANGED <<chats, roadmaps, nreq, nover, quota, lastTurn, ragInput, normOut, normAlt, trail>>

\* await Chat.findByIdAndDelete(chatId).  A request whose generation call
\* is in flight for the chat at that moment is marked (chatGone, history).
DeleteChatDoc(s) ==
    /\ reqs[s].pc = "del_chat"
    /\ chats' = [chats EXCEPT ![reqs[s].chatId].st = "deleted"]
    /\ reqs' = [t \in Slots |->
                  IF t = s THEN Done(reqs[s], 200)
                  ELSE IF reqs[t].pc = "gen_wait" /\ reqs[t].chatId = reqs[s].chatId
                       THEN [reqs[t] EXCEPT !.chatGone = TRUE]
                       ELSE reqs[t]]
    /\ UNCHANGED <<roadmaps, nreq, nover, quota, lastTurn, ragInput, normOut, normAlt, progress, trail>>

Next ==
    \/ \E u \in Users, c \in ChatIds, t \in NewTitles : NewChat(u, c, t)
    \/ \E s \in Slots, u \in Users, c \in ChatIds :
          \/ MessageRejected(s, u, c)
          \/ MessageChatNotFound(s, u, c)
          \/ \E text \in Texts : MessageFindChat(s, u, c, text)
          \/ GenerateChatNotFound(s, u, c)
          \/ GenerateAlreadyGenerated(s, u, c)
          \/ GenerateStart(s, u, c)
          \/ DeleteChatNotFound(s, u, c)
          \/ DeleteFindChat(s, u, c)
    \/ \E s \in Slots :
          \/ SaveUserMessage(s)
          \/ SaveSmartTitle(s)
          \/ SaveLoadingMessage(s)
          \/ Cooldown(s)
          \/ \E g \in BOOLEAN : ChatReply(s, g)
          \/ ChatFails(s)
          \/ \E p \in TurnPayloads : GenerateSucceeds(s, p)
          \/ \E f \in RagFaults : GenerateFails(s, f)
          \/ SyncTitle(s)
          \/ LinkChat(s)
          \/ SaveSuccessMessage(s)
          \/ SaveErrorMessage(s)
          \/ DeleteLinkedRoadmap(s)
          \/ DeleteLinkedProgress(s)
          \/ DeleteChatDoc(s)
          \/ Respond(s)

Spec == Init /\ [][Next]_vars

(***************************************************************************)
(* SpecNorm: the normalizer on every payload of NormPayloads.              *)
(***************************************************************************)
InitNorm ==
    /\ chats = [c \in ChatIds |-> FreeChat]
    /\ roadmaps = [i \in RoadmapIds |-> FreeRoadmap]
    /\ reqs = [s \in Slots |-> IdleReq]
    /\ nreq = 0
    /\ nover = 0
    /\ quota = 0
    /\ lastTurn = [c \in ChatIds |-> "none"]
    /\ ragInput \in NormPayloads
    /\ normOut = NotRun
    /\ normAlt = NotRun
    /\ progress = [i \in ProgressIds |-> FreeProgress]
    /\ trail = NoTrail

\* createFromRAG on the payload and, when the payload is snake_case only,
\* on its camelCase form.
Normalize ==
    /\ ~normOut.ran
    /\ LET r == createFromRAG("u1", "c1", ragInput)
       IN  normOut' = [ok |-> r.ok, roadmap |-> r.roadmap, ran |-> TRUE]
    /\ LET r == createFromRAG("u1", "c1", CamelCase(ragInput))
       IN  normAlt' = IF SnakeOnly(ragInput)
                      THEN [ok |-> r.ok, roadmap |-> r.roadmap, ran |-> TRUE]
                      ELSE NotRun
    /\ UNCHANGED <<chats, roadmaps, reqs, nreq, nover, quota, lastTurn, ragInput, progress, trail>>

NextNorm == Normalize

SpecNorm == InitNorm /\ [][NextNorm]_vars

(***************************************************************************)
(* SpecProg: the progress routes (routes/progress.js) and the roadmap      *)
(* delete route (routes/roadmap.js) running as concurrent tasks over a     *)
(* store that holds one chat of u1 linked to its roadmap, as a manual      *)
(* generation on a new chat leaves it.                                     *)
(***************************************************************************)
TwoTopics ==
    Present(<<[BasePhase EXCEPT !.topics =
        Present(<<BaseTopic, [BaseTopic EXCEPT !.id = JsStr("t2"), !.difficulty = JsUndef]>>)]>>)

\* What the Generation Service returned for the stored roadmap: two topics
\* with and without the totals, or no phases at all.
PlanPayloads ==
    {[BasePayload EXCEPT !.total_topics = JsNum(2), !.phases = TwoTopics],
     [BasePayload EXCEPT !.phases = TwoTopics],
     [BasePayload EXCEPT !.phases = Missing]}

LinkedChat ==
    [st |-> "live", userId |-> "u1", title |-> "New Chat", messages |-> <<>>,
     roadmapGenerated |-> TRUE, roadmapId |-> 1]

NoStats ==
    [totalTopics |-> 0, completedTopics |-> 0, percentageComplete |-> JsUndef,
     byDifficulty |-> [d \in DifficultyEnum |-> [total |-> 0, completed |-> 0]],
     ran |-> FALSE]

IdleCall ==
    [pc |-> "idle", kind |-> "none", user |-> "", roadmapId |-> 0,
     topicId |-> TopicOid(0, 0, 0), num |-> 0, found |-> 0, doc |-> FreeProgress,
     plan |-> NoRoadmap, solo |-> TRUE, status |-> 0, err |-> "none", why |-> "none",
     stats |-> NoStats]

\* The handler has answered.
DoneCall(r, status, err) ==
    [IdleCall EXCEPT !.pc = "respond", !.kind = r.kind, !.user = r.user,
                     !.roadmapId = r.roadmapId, !.topicId = r.topicId, !.num = r.num,
                     !.found = r.found, !.doc = r.doc, !.solo = r.solo,
                     !.status = status, !.err = err, !.stats = r.stats]

\* 404 'Roadmap not found': the roadmap does not exist, or is another user's.
NotFoundCall(kind, u, rid, tid) ==
    [IdleCall EXCEPT !.pc = "respond", !.kind = kind, !.user = u, !.roadmapId = rid,
                     !.topicId = tid, !.status = 404,
                     !.why = IF roadmaps[rid].st = "live" THEN "foreign" ELSE "missing"]

InitProg ==
    /\ chats = [c \in ChatIds |-> LinkedChat]
    /\ \E p \in PlanPayloads :
          roadmaps = [i \in RoadmapIds |->
                         IF i = 1
                         THEN [st |-> "live",
                               doc |-> [createFromRAG("u1", "c1", p).roadmap
                                           EXCEPT !.title = LinkedChat.title]]
                         ELSE FreeRoadmap]
    /\ reqs = [s \in Slots |-> IdleCall]
    /\ nreq = 1
    /\ nover = 0
    /\ quota = MaxCalls
    /\ lastTurn = [c \in ChatIds |-> "ok"]
    /\ ragInput = BasePayload
    /\ normOut = NotRun
    /\ normAlt = NotRun
    /\ progress = [i \in ProgressIds |-> FreeProgress]
    /\ trail = NoTrail

\* A lookup by _id alone.
FindRoadmapAnyUser(rid, u) == roadmaps[rid].st = "live"

\* Roadmap.findOne({ _id: roadmapId, userId: req.user._id })
FindRoadmap(rid, u) == roadmaps[rid].st = "live" /\ roadmaps[rid].doc.userId = u

RespondCall(s) ==
    /\ reqs[s].pc = "respond"
    /\ reqs' = [reqs EXCEPT ![s] = IdleCall]
    /\ UNCHANGED <<chats, roadmaps, nreq, nover, quota, lastTurn, ragInput, normOut, normAlt, progress, trail>>

(***************************************************************************)
(* POST /api/progress/toggle                                               *)
(***************************************************************************)
\* A field of the body is missing.
ToggleRejected(s) ==
    /\ Arrive(s)
    /\ reqs' = [reqs EXCEPT ![s] = [IdleCall EXCEPT !.pc = "respond", !.kind = "toggle",
                                                    !.status = 400]]
    /\ UNCHANGED <<chats, roadmaps, nreq, quota, lastTurn, ragInput, normOut, normAlt, progress, trail>>

ToggleRoadmapNotFound(s, u, rid, tid) ==
    /\ Arrive(s)
    /\ ~FindRoadmap(rid, u)
    /\ reqs' = [reqs EXCEPT ![s] = NotFoundCall("toggle", u, rid, tid)]
    /\ UNCHANGED <<chats, roadmaps, nreq, quota, lastTurn, ragInput, normOut, normAlt, progress, trail>>

ToggleFindRoadmap(s, u, rid, tid) ==
    /\ Arrive(s)
    /\ quota > 0
    /\ quota' = quota - 1
    /\ FindRoadmap(rid, u)
    /\ nreq' = nreq + 1
    /\ reqs' = [reqs EXCEPT ![s] =
                  [IdleCall EXCEPT !.pc = "mark_find", !.kind = "toggle", !.user = u,
                                   !.roadmapId = rid, !.topicId = tid, !.num = nreq + 1]]
    /\ UNCHANGED <<chats, roadmaps, lastTurn, ragInput, normOut, normAlt, progress, trail>>

\* The tasks that are inside markComplete for the same tuple as task s,
\* between their findOne and their save.
Rivals(s) ==
    {t \in Slots \ {s} : /\ reqs[t].pc = "mark_save"
                         /\ reqs[t].user = reqs[s].user
                         /\ reqs[t].roadmapId = reqs[s].roadmapId
                         /\ reqs[t].topicId = reqs[s].topicId}

\* A markComplete that marks the record found as completed instead of
\* flipping it.
MarkedAlways(r, found) ==
    IF found # 0
    THEN [progress[found] EXCEPT !.completed = TRUE, !.completedAt = r.num]
    ELSE [st |-> "live", userId |-> r.user, roadmapId |-> r.roadmapId,
          topicId |-> r.topicId, completed |-> TRUE, completedAt |-> r.num]

\* markComplete up to its save(): findOne, then flip the record found or
\* build a new one, completed.
Marked(r, found) ==
    IF found # 0
    THEN [progress[found] EXCEPT !.completed = ~@,
                                 !.completedAt = IF progress[found].completed THEN 0 ELSE r.num]
    ELSE [st |-> "live", userId |-> r.user, roadmapId |-> r.roadmapId,
          topicId |-> r.topicId, completed |-> TRUE, completedAt |-> r.num]

MarkFind(s) ==
    /\ reqs[s].pc = "mark_find"
    /\ LET r == reqs[s]
           m == Matching(r.user, r.roadmapId, r.topicId)
           found == IF m = {} THEN 0 ELSE CHOOSE i \in m : \A j \in m : i <= j
       IN  reqs' = [t \in Slots |->
                      IF t = s
                      THEN [r EXCEPT !.pc = "mark_save", !.found = found,
                                     !.doc = Marked(r, found),
                                     !.solo = Rivals(s) = {}]
                      ELSE IF t \in Rivals(s) THEN [reqs[t] EXCEPT !.solo = FALSE]
                      ELSE reqs[t]]
    /\ UNCHANGED <<chats, roadmaps, nreq, nover, quota, lastTurn, ragInput, normOut, normAlt, progress, trail>>

\* The last three completion states of a tuple.
Recent(q) == IF Len(q) > 3 THEN SubSeq(q, Len(q) - 2, Len(q)) ELSE q

\* await progress.save(): an insert for a new document, which the unique
\* index may reject (E11000), or an update of the record found, which
\* must still exist (DocumentNotFoundError).  Either error leaves through
\* the catch of the route.
MarkSave(s) ==
    /\ reqs[s].pc = "mark_save"
    /\ LET r == reqs[s]
           doc == PreSave(r.doc, TRUE, r.num)
           k == <<r.user, r.roadmapId, r.topicId>>
           id == IF r.found = 0 THEN r.num ELSE r.found
           fails == IF r.found = 0 THEN DuplicateKey(doc) ELSE progress[r.found].st # "live"
       IN  IF fails
           THEN /\ reqs' = [reqs EXCEPT ![s] =
                              DoneCall(r, 500, IF r.found = 0 THEN "E11000"
                                               ELSE "DocumentNotFound")]
                /\ UNCHANGED <<progress, trail>>
           ELSE /\ progress' = [progress EXCEPT ![id] = doc]
                /\ reqs' = [reqs EXCEPT ![s] = [r EXCEPT !.pc = "stats_roadmap", !.doc = doc]]
                /\ trail' = [trail EXCEPT ![k] =
                                IF r.solo THEN Recent(@ \o <<doc.completed>>)
                                ELSE <<doc.completed>>]
    /\ UNCHANGED <<chats, roadmaps, nreq, nover, quota, lastTurn, ragInput, normOut, normAlt>>

(***************************************************************************)
(* Progress.getProgressStats                                               *)
(***************************************************************************)
\* Math.round((completedCount / totalTopics) * 100): NaN for 0 / 0,
\* Infinity for n / 0.
Percentage(completedCount, totalTopics) ==
    IF totalTopics = 0
    THEN IF completedCount = 0 THEN [t |-> "NaN", n |-> 0, s |-> ""]
         ELSE [t |-> "Infinity", n |-> 0, s |-> ""]
    ELSE JsNum((200 * completedCount + totalTopics) \div (2 * totalTopics))

\* The positions <<i, j>> of the topics of a roadmap document.
TopicsOf(plan) ==
    UNION {{<<i, j>> : j \in DOMAIN plan.phases[i].topics} : i \in DOMAIN plan.phases}

Stats(u, rid, plan) ==
    LET records == {i \in ProgressIds : /\ progress[i].st = "live"
                                        /\ progress[i].userId = u
                                        /\ progress[i].roadmapId = rid}
        completedCount == Cardinality({i \in records : progress[i].completed})
        isCompleted(ij) ==
            \E i \in records : /\ progress[i].topicId = TopicOid(rid, ij[1], ij[2])
                               /\ progress[i].completed
        ofDifficulty(d) == {ij \in TopicsOf(plan) : plan.phases[ij[1]].topics[ij[2]].difficulty = d}
    IN  [totalTopics |-> plan.totalTopics,
         completedTopics |-> completedCount,
         percentageComplete |-> Percentage(completedCount, plan.totalTopics),
         byDifficulty |-> [d \in DifficultyEnum |->
                              [total |-> Cardinality(ofDifficulty(d)),
                               completed |-> Cardinality({ij \in ofDifficulty(d) : isCompleted(ij)})]],
         ran |-> TRUE]

\* const roadmap = await Roadmap.findById(roadmapId); throws 'Roadmap not
\* found', which both routes answer with 500.
StatsFindRoadmap(s) ==
    /\ reqs[s].pc = "stats_roadmap"
    /\ LET r == reqs[s]
       IN  reqs' = [reqs EXCEPT ![s] =
                      IF roadmaps[r.roadmapId].st = "live"
                      THEN [r EXCEPT !.pc = "stats_records", !.plan = roadmaps[r.roadmapId].doc]
                      ELSE DoneCall(r, 500, "Roadmap not found")]
    /\ UNCHANGED <<chats, roadmaps, nreq, nover, quota, lastTurn, ragInput, normOut, normAlt, progress, trail>>

\* const progressRecords = await this.find({ userId, roadmapId }); the
\* statistics; the toggle route answers with them.
StatsFindRecords(s) ==
    /\ reqs[s].pc = "stats_records"
    /\ LET r == [reqs[s] EXCEPT !.stats = Stats(reqs[s].user, reqs[s].roadmapId, reqs[s].plan)]
       IN  reqs' = [reqs EXCEPT ![s] =
                      IF r.kind = "toggle" THEN DoneCall(r, 200, "none")
                      ELSE [r EXCEPT !.pc = "completed_list"]]
    /\ UNCHANGED <<chats, roadmaps, nreq, nover, quota, lastTurn, ragInput, normOut, normAlt, progress, trail>>

(***************************************************************************)
(* GET /api/progress/roadmap/:roadmapId                                    *)
(***************************************************************************)
StatsRoadmapNotFound(s, u, rid) ==
    /\ Arrive(s)
    /\ ~FindRoadmap(rid, u)
    /\ reqs' = [reqs EXCEPT ![s] = NotFoundCall("stats", u, rid, TopicOid(0, 0, 0))]
    /\ UNCHANGED <<chats, roadmaps, nreq, quota, lastTurn, ragInput, normOut, normAlt, progress, trail>>

StatsStart(s, u, rid) ==
    /\ Arrive(s)
    /\ quota > 0
    /\ quota' = quota - 1
    /\ FindRoadmap(rid, u)
    /\ nreq' = nreq + 1
    /\ reqs' = [reqs EXCEPT ![s] =
                  [IdleCall EXCEPT !.pc = "stats_roadmap", !.kind = "stats", !.user = u,
                                   !.roadmapId = rid, !.num = nreq + 1]]
    /\ UNCHANGED <<chats, roadmaps, lastTurn, ragInput, normOut, normAlt, progress, trail>>

\* await Progress.getCompletedTopics(userId, roadmapId); res.json
ListCompleted(s) ==
    /\ reqs[s].pc = "completed_list"
    /\ reqs' = [reqs EXCEPT ![s] = DoneCall(reqs[s], 200, "none")]
    /\ UNCHANGED <<chats, roadmaps, nreq, nover, quota, lastTurn, ragInput, normOut, normAlt, progress, trail>>

(***************************************************************************)
(* DELETE /api/roadmap/:id                                                 *)
(***************************************************************************)
RoadmapDeleteNotFound(s, u, rid) ==
    /\ Arrive(s)
    /\ ~FindRoadmap(rid, u)
    /\ reqs' = [reqs EXCEPT ![s] = NotFoundCall("rmdelete", u, rid, TopicOid(0, 0, 0))]
    /\ UNCHANGED <<chats, roadmaps, nreq, quota, lastTurn, ragInput, normOut, normAlt, progress, trail>>

RoadmapDeleteFind(s, u, rid) ==
    /\ Arrive(s)
    /\ quota > 0
    /\ quota' = quota - 1
    /\ FindRoadmap(rid, u)
    /\ nreq' = nreq + 1
    /\ reqs' = [reqs EXCEPT ![s] =
                  [IdleCall EXCEPT !.pc = "rm_progress", !.kind = "rmdelete", !.user = u,
                                   !.roadmapId = rid, !.num = nreq + 1]]
    /\ UNCHANGED <<chats, roadmaps, lastTurn, ragInput, normOut, normAlt, progress, trail>>

\* await Progress.deleteMany({ roadmapId: id })
RoadmapDeleteProgress(s) ==
    /\ reqs[s].pc = "rm_progress"
    /\ progress' = DeleteMany(reqs[s].roadmapId)
    /\ trail' = [k \in Tuples |-> IF k[2] = reqs[s].roadmapId THEN <<FALSE>> ELSE trail[k]]
    /\ reqs' = [reqs EXCEPT ![s].pc = "rm_roadmap"]
    /\ UNCHANGED <<chats, roadmaps, nreq, nover, quota, lastTurn, ragInput, normOut, normAlt>>

\* await roadmap.deleteOne(); res.json
RoadmapDeleteDoc(s) ==
    /\ reqs[s].pc = "rm_roadmap"
    /\ roadmaps' = [roadmaps EXCEPT ![reqs[s].roadmapId].st = "deleted"]
    /\ reqs' = [reqs EXCEPT ![s] = DoneCall(reqs[s], 200, "none")]
    /\ UNCHANGED <<chats, nreq, nover, quota, lastTurn, ragInput, normOut, normAlt, progress, trail>>

NextProg ==
    \/ \E s \in Slots : ToggleRejected(s)
    \/ \E s \in Slots, u \in Users, rid \in PlanInputs :
          \/ \E tid \in TopicInputs : ToggleRoadmapNotFound(s, u, rid, tid)
          \/ \E tid \in TopicInputs : ToggleFindRoadmap(s, u, rid, tid)
          \/ StatsRoadmapNotFound(s, u, rid)
          \/ StatsStart(s, u, rid)
          \/ RoadmapDeleteNotFound(s, u, rid)
          \/ RoadmapDeleteFind(s, u, rid)
    \/ \E s \in Slots :
          \/ MarkFind(s)
          \/ MarkSave(s)
          \/ StatsFindRoadmap(s)
          \/ StatsFindRecords(s)
          \/ ListCompleted(s)
          \/ RoadmapDeleteProgress(s)
          \/ RoadmapDeleteDoc(s)
          \/ RespondCall(s)

SpecProg == InitProg /\ [][NextProg]_vars

(***************************************************************************)
(* Properties of the chat routes (specification Spec).                     *)
(***************************************************************************)
Last(q) == q[Len(q)]

\* The Plans stored for a chat.
PlansOf(c) == {i \in RoadmapIds : roadmaps[i].st = "live" /\ roadmaps[i].doc.chatId = c}

\* The tasks whose message turn has a generation call in flight for chat c.
Generating(c) ==
    {s \in Slots : reqs[s].kind = "message" /\ reqs[s].pc = "gen_wait" /\ reqs[s].chatId = c}

\* C1: in every reachable state at most one Plan is stored for each chat,
\* whatever message turns and generate-roadmap requests ran and however
\* they interleaved.
C1_AtMostOnePlanPerChat == \A c \in ChatIds : Cardinality(PlansOf(c)) <= 1

\* C2: a message turn that read roadmapGenerated = true from the chat never
\* has a generation call in flight, on either path.
C2_NoGenerationOnceCompleted ==
    \A s \in Slots :
        (reqs[s].kind = "message" /\ reqs[s].pc = "gen_wait") => ~reqs[s].chat.roadmapGenerated

\* C3: at most one message turn has a generation call in flight for a chat
\* at any time.
C3_OneGenerationInFlight == \A c \in ChatIds : Cardinality(Generating(c)) <= 1

\* C4: a message turn fires the generation exactly when the chat it works
\* on has roadmapGenerated = false and (at least 4 user messages, or the
\* advisory reply asked for generation).
C4_TriggerDecision ==
    \A s \in Slots :
        LET r == reqs[s]
            n == Len(UserMessages(r.chat.messages))
        IN  r.kind = "message" =>
              /\ r.pc = "gen_wait" =>
                    (~r.chat.roadmapGenerated /\ (n >= MIN_MESSAGES_FOR_ROADMAP \/ r.adv = "yes"))
              /\ r.pc \in {"delay", "chat_wait"} =>
                    ~(~r.chat.roadmapGenerated /\ n >= MIN_MESSAGES_FOR_ROADMAP)
              /\ r.adv = "yes" =>
                    r.pc \in {"gen_wait", "title_sync", "link", "success_msg", "error_msg"}

\* C5: the step that ends a failed generation attempt of a message turn
\* (the catch block has run) leaves no Plan stored for the chat and, when
\* the chat still exists, leaves it with roadmapGenerated = false and the
\* failure message as its last message.
C5_FailedAttemptRollsBack ==
    [][\A s \in Slots :
          (reqs[s].pc = "error_msg" /\ reqs'[s].pc = "respond")
          => LET c == reqs[s].chatId
             IN  /\ PlansOf(c)' = {}
                 /\ chats'[c].st = "live" =>
                       /\ ~chats'[c].roadmapGenerated
                       /\ chats'[c].messages # <<>>
                       /\ Last(chats'[c].messages).kind = "error"]_vars

\* C6: a message turn that starts when the last operation finished on the
\* chat is a message turn whose generation failed, and that then has at
\* least 4 user messages, takes the generation path, not the
\* conversational one.
C6_RetryAfterFailure ==
    \A s \in Slots :
        LET r == reqs[s]
        IN  (/\ r.kind = "message"
             /\ r.afterFailed
             /\ r.pc # "add_user"
             /\ Len(UserMessages(r.chat.messages)) >= MIN_MESSAGES_FOR_ROADMAP)
            => r.pc \notin {"delay", "chat_wait"}

\* C7: once a message turn is past its first save, and for as long as the
\* chat exists, the user message of the turn is stored in the chat: during
\* the trigger decision, during every call to the Generation Service, and
\* after the turn has answered, whatever the outcome.
PastFirstSave(r) == r.kind = "message" /\ r.num > 0 /\ r.pc \notin {"idle", "add_user"}

Stored(c, m) == \E i \in DOMAIN chats[c].messages : chats[c].messages[i] = m

C7_UserMessagePersistedFirst ==
    \A s \in Slots :
        (PastFirstSave(reqs[s]) /\ chats[reqs[s].chatId].st = "live")
        => Stored(reqs[s].chatId, Message("user", "user", reqs[s].text, reqs[s].num))

\* A message turn whose generation failed has answered 500 and its user
\* message is still in the chat.
C7_Witness ==
    \E s \in Slots :
        /\ PastFirstSave(reqs[s])
        /\ reqs[s].pc = "respond" /\ reqs[s].status = 500
        /\ chats[reqs[s].chatId].st = "live"
        /\ Last(chats[reqs[s].chatId].messages).kind = "error"

\* C8: whenever a chat is linked to a stored Plan, the Plan's title equals
\* the chat's title.
C8_PlanTitleMirrorsChat ==
    \A c \in ChatIds :
        (/\ chats[c].st = "live"
         /\ chats[c].roadmapId # 0
         /\ roadmaps[chats[c].roadmapId].st = "live")
        => roadmaps[chats[c].roadmapId].doc.title = chats[c].title

(***************************************************************************)
(* Properties of the normalizer (specification SpecNorm).                  *)
(***************************************************************************)
CanonicalTypes == {"video", "article", "practice"}

StoredResourceTypes(roadmap) ==
    LET ts == FlattenTopics(roadmap.phases)
    IN  UNION {{ts[i].resources[j].type : j \in DOMAIN ts[i].resources} : i \in DOMAIN ts}

\* C9: the stored Plan's totalTopics is the number of its Topics and its
\* totalHours the sum of their estimatedHours, whatever totals the payload
\* claimed.
C9_TotalsRecomputed ==
    (normOut.ran /\ normOut.ok) =>
        /\ normOut.roadmap.totalTopics = TopicCount(normOut.roadmap)
        /\ normOut.roadmap.totalHours = TopicHours(normOut.roadmap)

\* C10: every payload is normalized and every resource type of the stored
\* Plan is one of video, article, practice.
C10_ResourceTypeCanonical ==
    normOut.ran =>
        /\ normOut.ok
        /\ StoredResourceTypes(normOut.roadmap) \subseteq CanonicalTypes

CleanTitle(t) == t.t = "str" /\ t.s # "" /\ Trim(t) = t

C12_SnakeCamelEquivalent ==
    (normOut.ran /\ SnakeOnly(ragInput))
    => /\ normAlt.ran
       /\ normAlt.ok = normOut.ok
       /\ normAlt.roadmap = normOut.roadmap

\* A snake_case payload with truthy totals, phase number, phase name,
\* topic id and hours has been stored.
C12_Witness ==
    /\ normOut.ran /\ normOut.ok /\ normAlt.ran
    /\ ragInput.total_topics = JsNum(3) /\ ragInput.total_hours = JsNum(7)
    /\ ragInput.ai_summary = JsStr("sum")
    /\ \E ph \in SnakePhases :
          /\ ragInput.phases = Present(<<ph>>)
          /\ ph.phase_number = JsNum(2) /\ ph.phase_name = JsStr("Basics")
          /\ ph.topics.items[1].estimated_hours = JsNum(3)
    /\ normOut.roadmap.phases[1].topics[1].estimatedHours = 3

(***************************************************************************)
(* Properties of the progress routes (specification SpecProg).             *)
(***************************************************************************)
\* The save of markComplete by task s has succeeded in this step.
MarkSaved(s) == reqs[s].pc = "mark_save" /\ reqs'[s].pc = "stats_roadmap"

TupleOf(doc) == <<doc.userId, doc.roadmapId, doc.topicId>>

\* C13: every step leaves every record with completed = true exactly when
\* completedAt is set; a toggle that found no record stores a new record,
\* completed and stamped, and a toggle that found one (no other toggle of
\* the tuple overlapping it) flips the stored completed.
C13_CompletedIffStamped ==
    [][/\ \A i \in ProgressIds :
             progress'[i].st = "live" => (progress'[i].completed <=> progress'[i].completedAt # 0)
       /\ \A s \in Slots :
             MarkSaved(s) =>
                IF reqs[s].found = 0
                THEN /\ progress[reqs[s].num].st = "free"
                     /\ progress'[reqs[s].num].st = "live"
                     /\ progress'[reqs[s].num].completed
                     /\ progress'[reqs[s].num].completedAt # 0
                ELSE reqs[s].solo =>
                        progress'[reqs[s].found].completed = ~progress[reqs[s].found].completed]_vars

\* One record has been toggled on and off again, another one on.
C13_Witness ==
    /\ \E i \in ProgressIds :
          progress[i].st = "live" /\ ~progress[i].completed /\ progress[i].completedAt = 0
    /\ \E i \in ProgressIds :
          progress[i].st = "live" /\ progress[i].completed /\ progress[i].completedAt # 0

C15_OneRecordPerTuple ==
    \A i, j \in ProgressIds :
        (/\ progress[i].st = "live" /\ progress[j].st = "live"
         /\ TupleOf(progress[i]) = TupleOf(progress[j]))
        => i = j

\* Two toggles of one tuple both found no record; one has inserted, the
\* other has been rejected by the index, and one record is stored.
C15_Witness ==
    \E s \in Slots :
        /\ reqs[s].kind = "toggle" /\ reqs[s].pc = "respond" /\ reqs[s].err = "E11000"
        /\ Cardinality(Matching(reqs[s].user, reqs[s].roadmapId, reqs[s].topicId)) = 1

\* C16: a toggle that found no record while another toggle of the same
\* tuple was between its find and its save does not end in an error
\* response: the duplicate key is recovered.
C16_DuplicateInsertRecovered ==
    \A s \in Slots :
        (/\ reqs[s].kind = "toggle" /\ reqs[s].pc = "respond"
         /\ reqs[s].num > 0 /\ reqs[s].found = 0 /\ ~reqs[s].solo)
        => (reqs[s].err # "E11000" /\ reqs[s].status # 500)

\* A response that carries the statistics.
HasStats(r) == r.pc = "respond" /\ r.status = 200 /\ r.stats.ran

\* C17: percentageComplete of every statistics response is an integer in
\* 0..100, and 0 when totalTopics is 0.
C17_PercentageInRange ==
    \A s \in Slots :
        HasStats(reqs[s]) =>
            LET st == reqs[s].stats
            IN  /\ st.percentageComplete.t = "num"
                /\ st.percentageComplete.n \in 0..100
                /\ st.totalTopics = 0 => st.percentageComplete.n = 0

\* C18: in every statistics response totalTopics is the number of topics
\* of the roadmap and the sum of the per-difficulty totals, completedTopics
\* is the sum of the per-difficulty completed counts (the topics of the
\* roadmap that have a completed record), and completedTopics <=
\* totalTopics.
C18_StatsFromTopicList ==
    \A s \in Slots :
        HasStats(reqs[s]) =>
            LET st == reqs[s].stats
                by == st.byDifficulty
            IN  /\ st.totalTopics = TopicCount(roadmaps[reqs[s].roadmapId].doc)
                /\ st.totalTopics = by["easy"].total + by["medium"].total + by["hard"].total
                /\ st.completedTopics =
                      by["easy"].completed + by["medium"].completed + by["hard"].completed
                /\ st.completedTopics <= st.totalTopics

\* A toggle or statistics request the ownership lookup turned away.
TurnedAway(r) == r.pc = "respond" /\ r.kind \in {"toggle", "stats"} /\ r.why # "none"

\* C19: a toggle or statistics request on a roadmap of another user and
\* one on a roadmap that does not exist get the same 404 answer; the step
\* that turns a request away changes no progress record; and every record
\* ever stored belongs to the owner of a roadmap that existed.
C19_NotFoundForNonOwner ==
    [][/\ \A s \in Slots :
             TurnedAway(reqs'[s]) =>
                /\ reqs'[s].status = 404 /\ reqs'[s].err = "none" /\ ~reqs'[s].stats.ran
                /\ reqs[s].pc = "idle" => progress' = progress
       /\ \A i \in ProgressIds :
             progress'[i].st # "free" =>
                /\ roadmaps'[progress'[i].roadmapId].st # "free"
                /\ roadmaps'[progress'[i].roadmapId].doc.userId = progress'[i].userId]_vars

\* With a record stored, one toggle has been turned away from another
\* user's roadmap and one from a roadmap that does not exist.
C19_Witness ==
    /\ \E i \in ProgressIds : progress[i].st = "live"
    /\ \E s, t \in Slots :
          /\ TurnedAway(reqs[s]) /\ reqs[s].kind = "toggle" /\ reqs[s].why = "foreign"
          /\ TurnedAway(reqs[t]) /\ reqs[t].kind = "toggle" /\ reqs[t].why = "missing"
          /\ reqs[s].status = reqs[t].status

\* C20: when DELETE /api/roadmap/:id has answered 200, no progress record
\* of the roadmap is stored and no chat refers to the roadmap.
C20_PlanDeleteCascades ==
    \A s \in Slots :
        (reqs[s].kind = "rmdelete" /\ reqs[s].pc = "respond" /\ reqs[s].status = 200)
        => /\ \A i \in ProgressIds :
                 ~(progress[i].st = "live" /\ progress[i].roadmapId = reqs[s].roadmapId)
           /\ \A c \in ChatIds :
                 ~(chats[c].st = "live" /\ chats[c].roadmapId = reqs[s].roadmapId)

(***************************************************************************)
(* Properties of the calls to the Generation Service.                      *)
(***************************************************************************)
\* The step issues the /chat call of task s (the call is in flight after it).
IssuesChatCall(s) == reqs[s].pc # "chat_wait" /\ reqs'[s].pc = "chat_wait"

\* The step issues the /rag/generate call of task s.
IssuesGenerateCall(s) == reqs[s].pc # "gen_wait" /\ reqs'[s].pc = "gen_wait"

\* C21: in a message turn, the step that issues the conversational /chat
\* call is the end of the cooldown delay, and the step that issues a
\* generation call is never the end of a delay: the call of PATH A follows
\* the loading message, and the call made after the advisory reply asked
\* for generation follows the save of that reply.
C21_CooldownBeforeChatOnly ==
    [][\A s \in Slots :
          reqs'[s].kind = "message"
          => /\ IssuesChatCall(s) => reqs[s].pc = "delay"
             /\ IssuesGenerateCall(s) => reqs[s].pc \in {"loading", "chat_wait"}]_vars

\* A message turn that went through the delay and the /chat call and now
\* has the generation call in flight that the advisory reply asked for.
C21_Witness ==
    \E s \in Slots :
        /\ reqs[s].kind = "message" /\ reqs[s].pc = "gen_wait" /\ reqs[s].adv = "yes"
        /\ chats[reqs[s].chatId].st = "live"
        /\ Last(chats[reqs[s].chatId].messages).kind = "reply"

\* The error kind each fault class is to surface as.
FaultClasses == {f.class : f \in RagFaults}

\* C22: the error a failed generation call surfaces tells its fault class:
\* whenever a request carries the error of a fault of one class, no fault
\* of another class would have produced the same error.
C22_FaultClassesDistinct ==
    \A s \in Slots :
        reqs[s].fault # "none"
        => \A g \in RagFaults : g.class # reqs[s].fault => RagError(g) # reqs[s].details

\* An hours value of the payload is well formed: a number that is >= 0.
WellFormedHours(v) == v.t = "num" /\ v.n >= 0

\* C23: for every payload of HoursPayloads a Plan is stored, its phase's
\* totalHours and its topic's estimatedHours are >= 0, and each is the
\* payload's value when that is well formed and 0 when it is absent,
\* negative or not a number.
C23_HoursDefaultZero ==
    (normOut.ran /\ ragInput \in HoursPayloads)
    => /\ normOut.ok
       /\ LET given == ragInput.phases.items[1]
              phase == normOut.roadmap.phases[1]
              hours == given.topics.items[1].estimated_hours
          IN  /\ phase.totalHours >= 0
              /\ phase.topics[1].estimatedHours >= 0
              /\ phase.totalHours =
                    IF WellFormedHours(given.total_hours) THEN given.total_hours.n ELSE 0
              /\ phase.topics[1].estimatedHours =
                    IF WellFormedHours(hours) THEN hours.n ELSE 0

\* C24: in every stored Plan the phaseNumber values ascend strictly in
\* phase order (so they are pairwise distinct), whichever phases of the
\* payload carry a phase number.
C24_PhaseNumbersAscending ==
    (normOut.ran /\ normOut.ok)
    => \A i, j \in DOMAIN normOut.roadmap.phases :
          i < j => normOut.roadmap.phases[i].phaseNumber
                      < normOut.roadmap.phases[j].phaseNumber

(***************************************************************************)
(* Properties of the chat document and of the chat delete route.           *)
(***************************************************************************)
IsPrefix(a, b) == Len(a) <= Len(b) /\ SubSeq(b, 1, Len(a)) = a

\* C25: every step that leaves a chat stored leaves its stored messages as
\* a prefix of the new stored messages: no message is removed, moved or
\* changed, also when message turns on the chat interleave.
C25_MessagesAppendOnly ==
    [][\A c \in ChatIds :
          (chats[c].st = "live" /\ chats'[c].st = "live")
          => IsPrefix(chats[c].messages, chats'[c].messages)]_vars

\* Two turns interleaved on a chat: a message of the request that looked
\* the chat up later is stored before a message of the earlier request.
C25_Witness ==
    \E c \in ChatIds :
        /\ chats[c].st = "live"
        /\ \E i, j \in DOMAIN chats[c].messages :
              i < j /\ chats[c].messages[i].req > chats[c].messages[j].req

\* C26: when a request whose generation call was in flight while its chat
\* was deleted has finished, no Plan of that chat is stored and the chat
\* has not come back.
C26_LateResultDiscarded ==
    \A s \in Slots :
        (reqs[s].chatGone /\ reqs[s].pc = "respond")
        => /\ PlansOf(reqs[s].chatId) = {}
           /\ chats[reqs[s].chatId].st = "deleted"

\* C27: when DELETE /api/chat/:chatId has answered 200, the chat is gone,
\* no Plan of the chat is stored and no progress record of a Plan of the
\* chat is stored.
C27_ChatDeleteCascades ==
    \A s \in Slots :
        (reqs[s].kind = "delete" /\ reqs[s].pc = "respond" /\ reqs[s].status = 200)
        => /\ chats[reqs[s].chatId].st # "live"
           /\ PlansOf(reqs[s].chatId) = {}
           /\ \A i \in ProgressIds :
                 ~(/\ progress[i].st = "live"
                   /\ progress[i].roadmapId \in RoadmapIds
                   /\ roadmaps[progress[i].roadmapId].doc.chatId = reqs[s].chatId)

\* C28: every stored chat has roadmapGenerated = true exactly when its
\* roadmapId is set, and a step that writes a new value to one of the two
\* fields leaves both set: the flag true and roadmapId a roadmap's id.
C28_FlagIffRoadmapId ==
    [][\A c \in ChatIds :
          /\ chats[c].st = "live" => (chats[c].roadmapGenerated <=> chats[c].roadmapId # 0)
          /\ (/\ chats[c].st = "live" /\ chats'[c].st = "live"
              /\ \/ chats'[c].roadmapGenerated # chats[c].roadmapGenerated
                 \/ chats'[c].roadmapId # chats[c].roadmapId)
             => chats'[c].roadmapGenerated /\ chats'[c].roadmapId \in RoadmapIds]_vars

\* A chat linked to its roadmap by a finished generation.
C28_Witness ==
    \E c \in ChatIds :
        /\ chats[c].st = "live" /\ chats[c].roadmapGenerated /\ chats[c].roadmapId # 0
        /\ roadmaps[chats[c].roadmapId].st = "live"
        /\ \A s \in Slots : Idle(s)

\* C29: every stored progress record names a roadmap that is stored and
\* belongs to the record's user, also while a toggle and the deletion of
\* its roadmap interleave.
C29_ProgressReferencesPlan ==
    \A i \in ProgressIds :
        progress[i].st = "live"
        => /\ progress[i].roadmapId \in RoadmapIds
           /\ roadmaps[progress[i].roadmapId].st = "live"
           /\ roadmaps[progress[i].roadmapId].doc.userId = progress[i].userId

\* The step takes a generate-roadmap request into task s.
ManualRequest(s) == Idle(s) /\ reqs'[s].kind = "generate"

\* C30: a generate-roadmap request that arrives when every stored chat has
\* roadmapGenerated = true is answered with an error in that step, with no
\* generation call issued and the chats and roadmaps left as they were; a
\* request is answered 400 only when a stored chat has the flag, and a
\* request that finds its chat without the flag issues the generation call
\* however few user messages the chat has.
C30_ManualGenerateGuard ==
    [][\A s \in Slots :
          ManualRequest(s)
          => /\ (\A c \in ChatIds : chats[c].st = "live" => chats[c].roadmapGenerated)
                => /\ reqs'[s].pc = "respond" /\ reqs'[s].status \in {400, 404}
                   /\ UNCHANGED <<chats, roadmaps>>
             /\ reqs'[s].status = 400
                => /\ \E c \in ChatIds : chats[c].st = "live" /\ chats[c].roadmapGenerated
                   /\ reqs'[s].pc = "respond"
                   /\ UNCHANGED <<chats, roadmaps>>
             /\ (\A c \in ChatIds : chats[c].st = "live" /\ ~chats[c].roadmapGenerated)
                => \/ reqs'[s].pc = "gen_wait" /\ reqs'[s].chat = Loaded(reqs'[s].chatId)
                   \/ reqs'[s].pc = "respond" /\ reqs'[s].status = 404]_vars

\* A generate-roadmap request answered 400 on a chat without any user
\* message: its roadmap came from an earlier manual generation.
C30_Witness ==
    \E s \in Slots, c \in ChatIds :
        /\ reqs[s] = Rejected("generate", 400)
        /\ chats[c].st = "live" /\ chats[c].roadmapGenerated
        /\ UserMessages(chats[c].messages) = <<>>
        /\ PlansOf(c) # {}

====
